---- MODULE Spec2Model ----
(***************************************************************************)
(* Model of the Business Deal Tracker (src/app.py): two sheets of a remote *)
(* spreadsheet ("Deals", "Transactions"), the cached loaders, the status   *)
(* engine and the three pages (Add New Deal, Update Transaction,           *)
(* Dashboard).  Every page interaction is one script run; a run is split   *)
(* into steps at the points where the intermediate state matters (after    *)
(* the form is submitted, after the append + cache clear, after the status *)
(* check), and the position of the run is pc.                              *)
(*                                                                         *)
(* Amounts are whole units (the forms step by 0.01; exact arithmetic is    *)
(* assumed).  Dates are day numbers; the sheet stores them as text.        *)
(* A failing store call leaves the sheet as it was.                        *)
(***************************************************************************)
EXTENDS Integers, Sequences, FiniteSets, TLC

\* ---------------------------------------------------------------- bounds
MaxDeals == 2
MaxTrans == 2

\* ------------------------------------------------------- program constants
\* today (day number); the value leaves room for today - 365
Today == 400
\* st.date_input(..., value=None): no date chosen
NoDate == 0
\* worksheet row 1 is the header, data row with index i is sheet row i + 2
HeaderOffset == 2
\* timedelta(days=...) of the quick ranges
LastWeekDays == 7
LastMonthDays == 30
LastYearDays == 365

DealsHeader ==
  <<"Deal_ID", "Party", "Contractor", "Agreed_From_Party",
    "Agreed_To_Contractor", "Status", "Start_Date">>

TransHeader ==
  <<"Deal_ID", "Received_From_Party", "Paid_To_Contractor", "Date">>

\* ------------------------------------------------------------ input sets
\* the Add New Deal form: party, contractor, agreed from party, agreed to
\* contractor, start date; two valid submissions and one per way to fail
DealInputs ==
  { <<"P", "C", 1, 1, Today - LastWeekDays>>,
    <<"P", "C", 2, 1, Today - LastWeekDays>>,
    <<"", "C", 1, 1, Today - LastWeekDays>>,
    <<"P", "", 1, 1, Today - LastWeekDays>>,
    <<"P", "C", 0, 1, Today - LastWeekDays>>,
    <<"P", "C", 1, 0, Today - LastWeekDays>>,
    <<"P", "C", 1, 1, NoDate>> }
\* number_input(min_value=0.0): the amounts the transaction form is given
TransAmounts == {0, 1}
TransDates == {NoDate, Today}
\* the filter widgets of the dashboard: party, contractor, start, end
FilterInputs ==
  { <<"", "", NoDate, NoDate>>, <<"p", "x", Today - LastWeekDays, NoDate>>,
    <<"p", "c", Today - LastWeekDays, Today>>,
    <<"", "", Today - LastWeekDays + 1, Today>> }
RangeOptions == {"Custom", "Last Week", "Last Month", "Last Year"}
\* the dashboard's inputs: a quick range with the filter widgets left blank,
\* or the custom range with any of the filter inputs
DashInputs ==
  {<<"Custom", fi>> : fi \in FilterInputs}
    \cup {<<o, <<"", "", NoDate, NoDate>> >> : o \in RangeOptions}
\* which store call of a step fails (0: none)
FailPoints == 0..3

VARIABLES
  deals,       \* data rows of worksheet "Deals" (below the header row)
  trans,       \* data rows of worksheet "Transactions"
  cacheDeals,  \* st.cache_data entry of load_deals()
  cacheTrans,  \* st.cache_data entry of load_transactions()
  pc,          \* position of the current script run
  form,        \* the submitted form of the current run
  msg,         \* st.error / st.info / st.success shown by the current run
  dash,        \* what the Dashboard page rendered in the current run
  fault,       \* history: a store call of the current run failed
  recheck      \* history: outcome of a second successive status check

vars ==
  <<deals, trans, cacheDeals, cacheTrans, pc, form, msg, dash, fault,
    recheck>>

\* ------------------------------------------------------------- helpers
RECURSIVE SumOver(_, _)
SumOver(rows, col) ==
  IF rows = << >> THEN 0 ELSE rows[1][col] + SumOver(Tail(rows), col)

RECURSIVE MaxOver(_, _)
MaxOver(rows, col) ==
  IF Len(rows) = 1 THEN rows[1][col]
  ELSE LET m == MaxOver(Tail(rows), col)
       IN  IF rows[1][col] >= m THEN rows[1][col] ELSE m

\* date.strftime('%Y-%m-%d'): the text written into the sheet
strftime(d) == [ymd |-> d]

\* pd.to_datetime(text, errors='coerce', format='%Y-%m-%d')
to_datetime(text) == text.ymd

\* ------------------------------------------------------------ data frames
EmptyFrame == [columns |-> {}, rows |-> << >>]

\* pd.DataFrame(worksheet.get_all_records()): no records, no columns
load_sheet(sheet, header) ==
  IF sheet = << >> THEN EmptyFrame
  ELSE [columns |-> {header[i] : i \in DOMAIN header}, rows |-> sheet]

DealFrameRow(r) == [r EXCEPT !.Start_Date = to_datetime(r.Start_Date)]

load_deals(sheet) ==
  LET df == load_sheet(sheet, DealsHeader)
  IN  IF df.rows # << >>
      THEN [df EXCEPT !.rows = [i \in DOMAIN df.rows |-> DealFrameRow(df.rows[i])]]
      ELSE df

TransFrameRow(r) == [r EXCEPT !.Date = to_datetime(r.Date)]

load_transactions(sheet) ==
  LET df == load_sheet(sheet, TransHeader)
  IN  IF df.rows # << >>
      THEN [df EXCEPT !.rows = [i \in DOMAIN df.rows |-> TransFrameRow(df.rows[i])]]
      ELSE df

\* ------------------------------------------------------------------ cache
NoEntry == [valid |-> FALSE, df |-> EmptyFrame]
Entry(df) == [valid |-> TRUE, df |-> df]

\* variant: the clear is left out
ClearCache_Missing(entry) == entry

\* st.cache_data.clear()
ClearCache(entry) == NoEntry

\* @st.cache_data: a hit returns the stored frame, a miss calls the loader;
\* a loader that stops (ok = FALSE) stores nothing
CachedDeals(entry, sheet, ok) ==
  IF entry.valid THEN [entry |-> entry, df |-> entry.df, stopped |-> FALSE]
  ELSE IF ok THEN [entry |-> Entry(load_deals(sheet)), df |-> load_deals(sheet),
                   stopped |-> FALSE]
  ELSE [entry |-> entry, df |-> EmptyFrame, stopped |-> TRUE]

CachedTrans(entry, sheet, ok) ==
  IF entry.valid THEN [entry |-> entry, df |-> entry.df, stopped |-> FALSE]
  ELSE IF ok THEN [entry |-> Entry(load_transactions(sheet)),
                   df |-> load_transactions(sheet), stopped |-> FALSE]
  ELSE [entry |-> entry, df |-> EmptyFrame, stopped |-> TRUE]

\* ------------------------------------------------------------ store writes
\* variant: the exception is reported but the script is not stopped
append_to_sheet_NoStop(sheet, row, ok) ==
  IF ok THEN [sheet |-> Append(sheet, row), stopped |-> FALSE]
  ELSE [sheet |-> sheet, stopped |-> FALSE]

\* worksheet.append_row(row); on an exception st.error + st.stop()
append_to_sheet(sheet, row, ok) ==
  IF ok THEN [sheet |-> Append(sheet, row), stopped |-> FALSE]
  ELSE [sheet |-> sheet, stopped |-> TRUE]

\* worksheet.update_cell(row, col, value): rows and columns count from 1 and
\* row 1 is the header row, which is not part of the data rows
update_cell(sheet, row, col, value) ==
  LET i == row - 1
  IN  IF i \in DOMAIN sheet /\ col \in DOMAIN DealsHeader
      THEN [sheet EXCEPT ![i][DealsHeader[col]] = value]
      ELSE sheet

\* variant: the first row of the unfiltered frame
IndexOf_Unfiltered(df, deal_id) == 0

\* deals_df[deals_df['Deal_ID'] == deal_id].index[0]  (0-based)
IndexOf(df, deal_id) ==
  (CHOOSE i \in DOMAIN df.rows :
     /\ df.rows[i].Deal_ID = deal_id
     /\ \A j \in DOMAIN df.rows : df.rows[j].Deal_ID = deal_id => i <= j) - 1

\* deals_df.columns.get_loc('Status')  (0-based)
get_loc(header, name) ==
  (CHOOSE k \in DOMAIN header : header[k] = name) - 1

\* ---------------------------------------------------------- status engine
\* variant: the maximum is not incremented
generate_deal_id_NoIncrement(deals_df) ==
  IF deals_df.rows # << >> THEN MaxOver(deals_df.rows, "Deal_ID") ELSE 1

generate_deal_id(deals_df) ==
  IF deals_df.rows # << >> THEN MaxOver(deals_df.rows, "Deal_ID") + 1 ELSE 1

\* trans_df['Deal_ID'] raises KeyError on a frame without columns
calculate_totals(trans_df, deal_id) ==
  IF "Deal_ID" \notin trans_df.columns
  THEN [error |-> "KeyError", total_received |-> 0, total_paid |-> 0]
  ELSE LET deal_trans == SelectSeq(trans_df.rows, LAMBDA t : t.Deal_ID = deal_id)
       IN  [error |-> "",
            total_received |-> SumOver(deal_trans, "Received_From_Party"),
            total_paid |-> SumOver(deal_trans, "Paid_To_Contractor")]

\* variant: one of the two totals suffices
TargetStatus_Or(deal, total_received, total_paid) ==
  IF \/ total_received >= deal.Agreed_From_Party
     \/ total_paid >= deal.Agreed_To_Contractor
  THEN "Completed"
  ELSE "Pending"

\* the status the totals call for (the condition of line 126)
TargetStatus(deal, total_received, total_paid) ==
  IF /\ total_received >= deal.Agreed_From_Party
     /\ total_paid >= deal.Agreed_To_Contractor
  THEN "Completed"
  ELSE "Pending"

\* variant: the header row is not counted
update_deal_status_NoHeader(sheet, entry, deal_id, new_status, ok) ==
  LET ld == CachedDeals(entry, sheet, TRUE)
      index == IndexOf(ld.df, deal_id)
  IN  IF ok
      THEN [sheet |-> update_cell(sheet, index + 1,
                                  get_loc(DealsHeader, "Status") + 1, new_status),
            stopped |-> FALSE]
      ELSE [sheet |-> sheet, stopped |-> TRUE]

\* load_deals() (cached), find the row, update the Status cell of the sheet
update_deal_status(sheet, entry, deal_id, new_status, ok) ==
  LET ld == CachedDeals(entry, sheet, TRUE)
      index == IndexOf(ld.df, deal_id)
  IN  IF ok
      THEN [sheet |-> update_cell(sheet, index + HeaderOffset,
                                  get_loc(DealsHeader, "Status") + 1, new_status),
            stopped |-> FALSE]
      ELSE [sheet |-> sheet, stopped |-> TRUE]

\* check_and_update_status(deal_id) on the store (dsheet, tsheet) through the
\* cache entries (cd, ct).  failAt: 1 load_deals, 2 load_transactions,
\* 3 update_cell.  called: update_deal_status was called.
check_and_update_status(dsheet, tsheet, cd, ct, deal_id, failAt) ==
  LET ld == CachedDeals(cd, dsheet, failAt # 1)
      Out(d, e1, e2, c, s, err) ==
        [deals |-> d, cacheDeals |-> e1, cacheTrans |-> e2, called |-> c,
         stopped |-> s, error |-> err]
  IN  IF ld.stopped THEN Out(dsheet, ld.entry, ct, FALSE, TRUE, "")
      ELSE
      LET deal == ld.df.rows[IndexOf(ld.df, deal_id) + 1]
          lt == CachedTrans(ct, tsheet, failAt # 2)
      IN  IF lt.stopped THEN Out(dsheet, ld.entry, lt.entry, FALSE, TRUE, "")
          ELSE
          LET tot == calculate_totals(lt.df, deal_id)
              target == TargetStatus(deal, tot.total_received, tot.total_paid)
          IN  IF tot.error # ""
              THEN Out(dsheet, ld.entry, lt.entry, FALSE, FALSE, tot.error)
              ELSE IF deal.Status # target
              THEN LET up == update_deal_status(dsheet, ld.entry, deal_id, target,
                                                failAt # 3)
                   IN  Out(up.sheet, ld.entry, lt.entry, TRUE, up.stopped, "")
              ELSE Out(dsheet, ld.entry, lt.entry, FALSE, FALSE, "")

\* ------------------------------------------------------------- dashboard
\* get_dashboard_data(): groupby('Deal_ID') raises KeyError on a frame
\* without columns; the left merge keeps every deal, fillna(0) zeroes the
\* aggregates of a deal without transactions
DashRow(d, trans_df) ==
  LET mine == SelectSeq(trans_df.rows, LAMBDA t : t.Deal_ID = d.Deal_ID)
      tr == SumOver(mine, "Received_From_Party")
      tp == SumOver(mine, "Paid_To_Contractor")
  IN  [Deal_ID |-> d.Deal_ID, Party |-> d.Party, Contractor |-> d.Contractor,
       Agreed_From_Party |-> d.Agreed_From_Party,
       Agreed_To_Contractor |-> d.Agreed_To_Contractor,
       Status |-> d.Status, Total_Received |-> tr, Total_Paid |-> tp,
       Remaining_From_Party |-> d.Agreed_From_Party - tr,
       Remaining_To_Contractor |-> d.Agreed_To_Contractor - tp,
       Profit |-> d.Agreed_From_Party - d.Agreed_To_Contractor,
       Start_Date |-> d.Start_Date]

get_dashboard_data(deals_df, trans_df) ==
  IF deals_df.rows = << >> THEN [error |-> "", rows |-> << >>]
  ELSE IF "Deal_ID" \notin trans_df.columns
  THEN [error |-> "KeyError", rows |-> << >>]
  ELSE [error |-> "",
        rows |-> [i \in DOMAIN deals_df.rows |-> DashRow(deals_df.rows[i], trans_df)]]

\* line 5, "from datetime import datetime": the name datetime is the class
DatetimeName == "class"

\* attribute lookup on the datetime module and on the datetime class
HasAttr(binding, attr) ==
  IF binding = "module" THEN attr \in {"datetime", "date", "timedelta"}
  ELSE attr \in {"today", "now", "date", "strftime"}

\* lines 251-258: the quick range replaces the bounds of the date inputs
quick_range(option, start_date, end_date) ==
  IF option = "Custom"
  THEN [error |-> "", start_date |-> start_date, end_date |-> end_date]
  ELSE IF ~HasAttr(DatetimeName, "datetime")
  THEN [error |-> "AttributeError", start_date |-> start_date,
        end_date |-> end_date]
  ELSE [error |-> "",
        start_date |-> Today - (CASE option = "Last Week" -> LastWeekDays
                                  [] option = "Last Month" -> LastMonthDays
                                  [] OTHER -> LastYearDays),
        end_date |-> Today]

\* str.lower() on the names the forms can enter
Lower(s) == CASE s = "P" -> "p" [] s = "C" -> "c" [] s = "X" -> "x" [] OTHER -> s

\* Series.str.contains(f, case=False) on one-letter names
Contains(s, f) == Lower(s) = Lower(f)

\* lines 261-267
apply_filters(rows, party_filter, contractor_filter, start_date, end_date) ==
  LET f1 == IF party_filter # ""
            THEN SelectSeq(rows, LAMBDA r : Contains(r.Party, party_filter))
            ELSE rows
      f2 == IF contractor_filter # ""
            THEN SelectSeq(f1, LAMBDA r : Contains(r.Contractor, contractor_filter))
            ELSE f1
  IN  IF start_date # NoDate /\ end_date # NoDate
      THEN SelectSeq(f2, LAMBDA r : r.Start_Date >= start_date
                                     /\ r.Start_Date <= end_date)
      ELSE f2

\* ------------------------------------------------------------------ state
NoForm ==
  [page |-> "", party |-> "", contractor |-> "", agreed_from_party |-> 0,
   agreed_to_contractor |-> 0, start_date |-> NoDate, deal_id |-> 0,
   received |-> 0, paid |-> 0, trans_date |-> NoDate]

NoDash ==
  [state |-> "none", option |-> "", reached |-> FALSE, start_date |-> NoDate,
   end_date |-> NoDate, data |-> << >>, filtered |-> << >>]

StoreError == "store error"

Init ==
  /\ deals = << >>
  /\ trans = << >>
  /\ cacheDeals = NoEntry
  /\ cacheTrans = NoEntry
  /\ pc = "idle"
  /\ form = NoForm
  /\ msg = ""
  /\ dash = NoDash
  /\ fault = FALSE
  /\ recheck = "none"

\* a script run ends (normally, by st.stop() or by an uncaught exception);
\* what it rendered stays on the page until the next run
EndRun(page, m) ==
  /\ pc' = "done"
  /\ form' = [NoForm EXCEPT !.page = page]
  /\ msg' = m

\* the next interaction reruns the script from the top and clears the page
NewRun ==
  /\ pc = "done"
  /\ pc' = "idle"
  /\ msg' = ""
  /\ dash' = NoDash
  /\ fault' = FALSE
  /\ recheck' = "none"
  /\ form' = NoForm
  /\ UNCHANGED <<deals, trans, cacheDeals, cacheTrans>>

\* ------------------------------------------------------- page Add New Deal
\* variant: an agreed amount of 0 passes
ValidDeal_ZeroPasses(f) ==
  ~(\/ f.party = ""
    \/ f.contractor = ""
    \/ f.agreed_from_party < 0
    \/ f.agreed_to_contractor < 0
    \/ f.start_date = NoDate)

\* line 169
ValidDeal(f) ==
  ~(\/ f.party = ""
    \/ f.contractor = ""
    \/ f.agreed_from_party <= 0
    \/ f.agreed_to_contractor <= 0
    \/ f.start_date = NoDate)

\* the form is submitted (lines 160-168): a new script run starts
SubmitDeal ==
  /\ pc = "idle"
  /\ Len(deals) < MaxDeals
  /\ \E in \in DealInputs :
       form' = [NoForm EXCEPT !.page = "deal", !.party = in[1],
                              !.contractor = in[2],
                              !.agreed_from_party = in[3],
                              !.agreed_to_contractor = in[4],
                              !.start_date = in[5]]
  /\ pc' = "deal_submitted"
  /\ UNCHANGED <<deals, trans, cacheDeals, cacheTrans, msg, dash, fault,
                 recheck>>

\* lines 169-187: validate, generate the id, append, clear the cache
\* failAt: 1 load_deals, 2 append_row
AddDeal(F) ==
  /\ pc = "deal_submitted"
  /\ UNCHANGED <<trans, dash, recheck>>
  /\ IF ~ValidDeal(form)
     THEN /\ EndRun("deal", "Please fill all fields with valid values.")
          /\ UNCHANGED <<deals, cacheDeals, cacheTrans, fault>>
     ELSE \E failAt \in F \cap (0..2) :
       LET ld == CachedDeals(cacheDeals, deals, failAt # 1)
           new_deal == [Deal_ID |-> generate_deal_id(ld.df),
                        Party |-> form.party,
                        Contractor |-> form.contractor,
                        Agreed_From_Party |-> form.agreed_from_party,
                        Agreed_To_Contractor |-> form.agreed_to_contractor,
                        Status |-> "Pending",
                        Start_Date |-> strftime(form.start_date)]
           ap == append_to_sheet(deals, new_deal, failAt # 2)
       IN  /\ fault' = ((failAt = 1 /\ ~cacheDeals.valid) \/ failAt = 2)
           /\ IF ld.stopped
              THEN /\ EndRun("deal", StoreError)
                   /\ UNCHANGED <<deals, cacheDeals, cacheTrans>>
              ELSE IF ap.stopped
              THEN /\ EndRun("deal", StoreError)
                   /\ cacheDeals' = ld.entry
                   /\ UNCHANGED <<deals, cacheTrans>>
              ELSE /\ EndRun("deal", "Deal added successfully!")
                   /\ deals' = ap.sheet
                   /\ cacheDeals' = ClearCache(ld.entry)
                   /\ cacheTrans' = ClearCache(cacheTrans)

\* ------------------------------------------------- page Update Transaction
\* line 192: deals_df[deals_df['Status'] == 'Pending']
PendingDeals(deals_df) ==
  SelectSeq(deals_df.rows, LAMBDA d : d.Status = "Pending")

\* lines 207-210: "" when the form is valid, the error message otherwise
TransError(f) ==
  IF f.received = 0 /\ f.paid = 0
  THEN "At least one amount should be greater than 0."
  ELSE IF f.trans_date = NoDate
  THEN "Please select a valid transaction date."
  ELSE ""

\* lines 190-206: the page loads the deals, offers the pending ones and the
\* form is submitted.  failAt: 1 load_deals
SubmitTrans(F) ==
  /\ pc = "idle"
  /\ Len(trans) < MaxTrans
  /\ UNCHANGED <<deals, trans, cacheTrans, dash, recheck>>
  /\ \E failAt \in F \cap (0..1) :
       LET ld == CachedDeals(cacheDeals, deals, failAt # 1)
       IN  /\ fault' = (failAt = 1 /\ ~cacheDeals.valid)
           /\ cacheDeals' = ld.entry
           /\ IF ld.stopped THEN EndRun("trans", StoreError)
              ELSE IF "Status" \notin ld.df.columns THEN EndRun("trans", "KeyError")
              ELSE IF PendingDeals(ld.df) = << >>
              THEN EndRun("trans", "No deals available. Add a new deal first.")
              ELSE \E i \in DOMAIN PendingDeals(ld.df), r \in TransAmounts,
                      q \in TransAmounts, td \in TransDates :
                     /\ form' = [NoForm EXCEPT
                                   !.page = "trans",
                                   !.deal_id = PendingDeals(ld.df)[i].Deal_ID,
                                   !.received = r, !.paid = q,
                                   !.trans_date = td]
                     /\ pc' = "trans_submitted"
                     /\ UNCHANGED msg

\* lines 207-215: validate, append the transaction, clear the cache
\* failAt: 1 append_row
AddTrans(F) ==
  /\ pc = "trans_submitted"
  /\ UNCHANGED <<deals, dash, recheck>>
  /\ IF TransError(form) # ""
     THEN /\ EndRun("trans", TransError(form))
          /\ UNCHANGED <<trans, cacheDeals, cacheTrans, fault>>
     ELSE \E failAt \in F \cap (0..1) :
       LET new_trans == [Deal_ID |-> form.deal_id,
                         Received_From_Party |-> form.received,
                         Paid_To_Contractor |-> form.paid,
                         Date |-> strftime(form.trans_date)]
           ap == append_to_sheet(trans, new_trans, failAt # 1)
       IN  /\ fault' = (failAt = 1)
           /\ IF ap.stopped
              THEN /\ EndRun("trans", StoreError)
                   /\ UNCHANGED <<trans, cacheDeals, cacheTrans>>
              ELSE /\ trans' = ap.sheet
                   /\ cacheDeals' = ClearCache(cacheDeals)
                   /\ cacheTrans' = ClearCache(cacheTrans)
                   /\ pc' = "check"
                   /\ UNCHANGED <<form, msg>>

\* line 216: check_and_update_status(deal_id); a KeyError is caught by the
\* except of line 219
CheckStatus(F) ==
  /\ pc = "check"
  /\ UNCHANGED <<trans, dash, recheck>>
  /\ \E failAt \in F :
       LET r == check_and_update_status(deals, trans, cacheDeals, cacheTrans,
                                        form.deal_id, failAt)
       IN  /\ deals' = r.deals
           /\ cacheDeals' = r.cacheDeals
           /\ cacheTrans' = r.cacheTrans
           /\ fault' = \/ failAt = 1 /\ ~cacheDeals.valid
                       \/ failAt = 2 /\ ~cacheTrans.valid
                       \/ failAt = 3 /\ r.called
           /\ IF r.stopped THEN EndRun("trans", StoreError)
              ELSE IF r.error # ""
              THEN EndRun("trans", "Error adding transaction")
              ELSE /\ pc' = "after_check"
                   /\ UNCHANGED <<form, msg>>

\* lines 217-218: report success, clear the cache
FinishTrans ==
  /\ pc = "after_check"
  /\ EndRun("trans", "Transaction added successfully!")
  /\ cacheDeals' = ClearCache(cacheDeals)
  /\ cacheTrans' = ClearCache(cacheTrans)
  /\ UNCHANGED <<deals, trans, dash, fault, recheck>>

\* ---------------------------------------------------------- page Dashboard
\* lines 222-267.  failAt: 1 load_deals, 2 load_transactions
Dashboard(F) ==
  /\ pc = "idle"
  /\ pc' = "done"
  /\ form' = [NoForm EXCEPT !.page = "dashboard"]
  /\ UNCHANGED <<deals, trans, recheck>>
  /\ \E failAt \in F \cap (0..2), in \in DashInputs :
       LET option == in[1]
           fi == in[2]
           pf == fi[1]
           cf == fi[2]
           ld == CachedDeals(cacheDeals, deals, failAt # 1)
           lt == CachedTrans(cacheTrans, trans, failAt # 2)
           data == get_dashboard_data(ld.df, lt.df)
           qr == quick_range(option, fi[3], fi[4])
           Show(st, reached, rows, filtered) ==
             dash' = [state |-> st, option |-> option, reached |-> reached,
                      start_date |-> qr.start_date, end_date |-> qr.end_date,
                      data |-> rows, filtered |-> filtered]
       IN  /\ fault' = \/ failAt = 1 /\ ~cacheDeals.valid
                       \/ failAt = 2 /\ ~cacheTrans.valid
           /\ IF ld.stopped
              THEN /\ msg' = StoreError
                   /\ Show("stopped", FALSE, << >>, << >>)
                   /\ UNCHANGED <<cacheDeals, cacheTrans>>
              ELSE IF lt.stopped
              THEN /\ msg' = StoreError
                   /\ Show("stopped", FALSE, << >>, << >>)
                   /\ cacheDeals' = ld.entry
                   /\ UNCHANGED cacheTrans
              ELSE
                /\ cacheDeals' = ld.entry
                /\ cacheTrans' = lt.entry
                /\ IF data.error # ""
                   THEN msg' = data.error
                        /\ Show(data.error, FALSE, << >>, << >>)
                   ELSE IF data.rows = << >>
                   THEN msg' = "No deals available."
                        /\ Show("empty", FALSE, << >>, << >>)
                   ELSE IF qr.error # ""
                   THEN msg' = qr.error
                        /\ Show(qr.error, TRUE, data.rows, << >>)
                   ELSE msg' = ""
                        /\ Show("ok", TRUE, data.rows,
                                apply_filters(data.rows, pf, cf, qr.start_date,
                                              qr.end_date))

\* ------------------------------------------------------------ cache expiry
\* ttl=60: an entry expires on its own; a script run is short against the
\* ttl, an expiry is taken between two runs
ExpireDeals ==
  /\ pc = "idle"
  /\ cacheDeals.valid
  /\ cacheDeals' = NoEntry
  /\ UNCHANGED <<deals, trans, cacheTrans, pc, form, msg, dash, fault, recheck>>

ExpireTrans ==
  /\ pc = "idle"
  /\ cacheTrans.valid
  /\ cacheTrans' = NoEntry
  /\ UNCHANGED <<deals, trans, cacheDeals, pc, form, msg, dash, fault, recheck>>

\* F: the store calls the store is allowed to fail
Step(F) ==
  \/ SubmitDeal
  \/ AddDeal(F)
  \/ SubmitTrans(F)
  \/ AddTrans(F)
  \/ CheckStatus(F)
  \/ FinishTrans
  \/ Dashboard(F)
  \/ NewRun
  \/ ExpireDeals
  \/ ExpireTrans

Next == Step(FailPoints)

Spec == Init /\ [][Next]_vars

\* the store never fails: every action that starts completes
NextNoFailure == Step({0})

SpecNoFailure == Init /\ [][NextNoFailure]_vars

\* --------------------------------------------- a second, successive check
\* check_and_update_status(deal_id) invoked once more right after line 216,
\* before anything else runs
CheckAgain ==
  /\ pc = "after_check"
  /\ recheck = "none"
  /\ LET r == check_and_update_status(deals, trans, cacheDeals, cacheTrans,
                                      form.deal_id, 0)
     IN  /\ deals' = r.deals
         /\ cacheDeals' = r.cacheDeals
         /\ cacheTrans' = r.cacheTrans
         /\ recheck' = IF r.called THEN "wrote" ELSE "no write"
  /\ UNCHANGED <<trans, pc, form, msg, dash, fault>>

NextTwice == Next \/ CheckAgain

SpecTwice == Init /\ [][NextTwice]_vars

\* ================================================================ claims
TotalOf(deal_id, col) ==
  SumOver(SelectSeq(trans, LAMBDA t : t.Deal_ID = deal_id), col)

TotalsMet(d) ==
  /\ TotalOf(d.Deal_ID, "Received_From_Party") >= d.Agreed_From_Party
  /\ TotalOf(d.Deal_ID, "Paid_To_Contractor") >= d.Agreed_To_Contractor

HasTransactions(d) == \E k \in DOMAIN trans : trans[k].Deal_ID = d.Deal_ID

\* C1: when every add-deal and add-transaction so far has completed (no
\* store failure) and none is under way, every stored deal is Completed
\* exactly when both totals of its transactions reach the agreed amounts,
\* and Pending otherwise; a deal without transactions is Pending with both
\* totals 0.
C1_StatusMatchesTotals ==
  \A i \in DOMAIN deals :
    /\ pc \in {"idle", "done"} =>
         /\ deals[i].Status \in {"Pending", "Completed"}
         /\ deals[i].Status = "Completed" <=> TotalsMet(deals[i])
    /\ ~HasTransactions(deals[i]) =>
         /\ deals[i].Status = "Pending"
         /\ TotalOf(deals[i].Deal_ID, "Received_From_Party") = 0
         /\ TotalOf(deals[i].Deal_ID, "Paid_To_Contractor") = 0

\* a deal completed by its second transaction, next to a deal without any
C1_Witness ==
  /\ pc = "done"
  /\ msg = "Transaction added successfully!"
  /\ Len(deals) = 2
  /\ Len(trans) = 2
  /\ trans[1].Deal_ID = deals[1].Deal_ID
  /\ trans[2].Deal_ID = deals[1].Deal_ID
  /\ deals[1].Status = "Completed"
  /\ deals[2].Status = "Pending"

\* C2: no step sets the Status of a Completed deal back to Pending.
C2_CompletedStays ==
  [][\A i \in DOMAIN deals :
       deals[i].Status = "Completed" =>
         i \in DOMAIN deals' /\ deals'[i].Status = "Completed"]_vars

\* deal 1 is Completed and a later transaction of deal 2 has been checked
C2_Witness ==
  /\ pc = "after_check"
  /\ Len(deals) = 2
  /\ deals[1].Status = "Completed"
  /\ form.deal_id = deals[2].Deal_ID
  /\ Len(trans) = 2
  /\ trans[2].Deal_ID = deals[2].Deal_ID

\* C3: Deal_IDs are unique; the first deal gets 1 and every later deal the
\* maximum so far plus 1, so ids strictly increase along the table.
C3_UniqueIncreasingIds ==
  /\ \A i, j \in DOMAIN deals : i # j => deals[i].Deal_ID # deals[j].Deal_ID
  /\ deals # << >> => deals[1].Deal_ID = 1
  /\ \A i \in DOMAIN deals :
       i > 1 => deals[i].Deal_ID = MaxOver(SubSeq(deals, 1, i - 1), "Deal_ID") + 1

C3_Witness ==
  /\ Len(deals) = MaxDeals
  /\ pc = "done"
  /\ msg = "Deal added successfully!"

\* a valid cache entry holds what the loader returns for the store now
CacheFresh ==
  /\ cacheDeals.valid => cacheDeals.df = load_deals(deals)
  /\ cacheTrans.valid => cacheTrans.df = load_transactions(trans)

\* C4: wherever the run reads through the cache next (everywhere but between
\* the status check and the clear that follows it), a cached table equals
\* the store; and the status check starts with the cache cleared.
C4_ReadsSeeWrites ==
  /\ pc # "after_check" => CacheFresh
  /\ pc = "check" => ~cacheDeals.valid /\ ~cacheTrans.valid

\* a transaction was appended while both tables were cached, and the check
\* is about to read
C4_Witness ==
  /\ pc = "check"
  /\ Len(trans) = 2
  /\ Len(deals) = 2

\* C5 (as claimed): a second successive check_and_update_status for the
\* same deal with unchanged totals calls update_cell no more.
C5_SecondCheckWritesNothing == recheck # "wrote"

\* C6 (as claimed): with at least one deal in the table, the dashboard data
\* has one row per deal carrying the sums of that deal's transactions.
C6_EveryDealHasARow ==
  (dash.state \notin {"none", "stopped"} /\ deals # << >>) =>
    /\ dash.state \notin {"KeyError", "empty"}
    /\ Len(dash.data) = Len(deals)
    /\ \A i \in DOMAIN deals :
         /\ dash.data[i].Deal_ID = deals[i].Deal_ID
         /\ dash.data[i].Total_Received
              = TotalOf(deals[i].Deal_ID, "Received_From_Party")
         /\ dash.data[i].Total_Paid
              = TotalOf(deals[i].Deal_ID, "Paid_To_Contractor")

\* C7: a step never changes a field of an existing deal row other than
\* Status, never removes a row, and changes a Status only in the status
\* check of the run for that row's Deal_ID.
C7_OnlyStatusOfTheDealChanges ==
  [][/\ Len(deals') >= Len(deals)
     /\ \A i \in DOMAIN deals :
          /\ [deals'[i] EXCEPT !.Status = deals[i].Status] = deals[i]
          /\ deals'[i].Status # deals[i].Status =>
               pc = "check" /\ form.deal_id = deals[i].Deal_ID]_vars

\* the second deal was just set to Completed, the first one is untouched
C7_Witness ==
  /\ pc = "after_check"
  /\ Len(deals) = 2
  /\ form.deal_id = deals[2].Deal_ID
  /\ deals[2].Status = "Completed"
  /\ deals[1].Status = "Pending"

InvalidDealForm(f) ==
  \/ f.party = ""
  \/ f.contractor = ""
  \/ f.agreed_from_party <= 0
  \/ f.agreed_to_contractor <= 0
  \/ f.start_date = NoDate

InvalidTransForm(f) ==
  \/ f.received = 0 /\ f.paid = 0
  \/ f.trans_date = NoDate

ValidationMessages ==
  {"Please fill all fields with valid values.",
   "At least one amount should be greater than 0.",
   "Please select a valid transaction date."}

\* C8: a step taken on an invalid submitted form changes neither table, and
\* when it ends the run it reports a validation error (the next run may
\* then start).
C8_InvalidFormWritesNothing ==
  [][(\/ pc = "deal_submitted" /\ InvalidDealForm(form)
      \/ pc = "trans_submitted" /\ InvalidTransForm(form)) =>
       /\ deals' = deals
       /\ trans' = trans
       /\ pc' \in {pc, "done"}
       /\ pc' = "done" => msg' \in ValidationMessages]_vars

\* a validation error is on the page while both tables hold rows
C8_Witness ==
  /\ pc = "done"
  /\ msg \in ValidationMessages
  /\ deals # << >>
  /\ trans # << >>

QuickDays(option) ==
  CASE option = "Last Week" -> LastWeekDays
    [] option = "Last Month" -> LastMonthDays
    [] OTHER -> LastYearDays

\* C9 (as claimed): a quick range sets end_date = today and start_date =
\* today - 7 / 30 / 365 and the rows shown are those with
\* start_date <= Start_Date <= end_date.
C9_QuickRangeFilters ==
  (dash.reached /\ dash.option # "Custom") =>
    /\ dash.state = "ok"
    /\ dash.end_date = Today
    /\ dash.start_date = Today - QuickDays(dash.option)
    /\ dash.filtered
         = SelectSeq(dash.data, LAMBDA r : /\ r.Start_Date >= dash.start_date
                                           /\ r.Start_Date <= dash.end_date)

\* C10: a step in which a store call fails ends the run and leaves both
\* tables as they were; in particular a failed append is not followed by the
\* status check.
C10_FailureStopsTheRun ==
  [][fault' =>
       /\ pc' = "done"
       /\ msg' = StoreError
       /\ ~fault => deals' = deals /\ trans' = trans]_vars

\* the append of a transaction failed: the deals were loaded for the page,
\* no transaction is stored and no status check is outstanding
C10_Witness ==
  /\ fault
  /\ pc = "done"
  /\ form.page = "trans"
  /\ msg = StoreError
  /\ cacheDeals.valid
  /\ trans = << >>

====
